---- MODULE Spec2Model ----
(***************************************************************************)
(* Model of scripts/generate-icons.py: the font locator (find_font), the   *)
(* icon renderer (generate_icon) and the driver (main).                    *)
(*                                                                         *)
(* Font paths are identified by their index in font_paths (1 is the        *)
(* highest priority).  An image is identified by what determines its       *)
(* pixels: its size, the font it was drawn with, the point size, and       *)
(* whether the rounded-corner mask was applied.                            *)
(***************************************************************************)
EXTENDS Integers, Sequences, FiniteSets

(* ------------------------------------------------------------------ *)
(* Bounds of the model                                                *)
(* ------------------------------------------------------------------ *)

\* main: at most this many of the candidate font paths exist at once.
MaxFonts == 2

\* main: the script is run at most this many times in succession.
MaxRuns == 2

\* font size: generate_icon is called with sizes 1..MaxSize.
MaxSize == 130

\* centering: canvases of 1..MaxCanvas pixels beside those of SIZES, boxes
\* whose left and top lie in -MaxBearing..MaxBearing and whose width and
\* height lie in 0..MaxExtent.
MaxCanvas == 4
MaxBearing == 1
MaxExtent == 6

\* masking: the sizes within MaskWindow of the threshold, beside those of SIZES.
MaskWindow == 2

(* ------------------------------------------------------------------ *)
(* Configuration (module-level constants of the script)               *)
(* ------------------------------------------------------------------ *)

SIZES == <<16, 48, 128>>

\* len(font_paths); the paths themselves are 1..NumFontPaths in list order.
NumFontPaths == 10

font_paths == 1..NumFontPaths

\* What find_font yields when it raises FileNotFoundError.
NotFound == 0

\* ImageFont.load_default(): the built-in font, which is no candidate path.
DefaultFont == 0

\* The size at and above which the corners are rounded.
RoundedFrom == 48

\* Alpha of BACKGROUND_COLOR + (255,) and of the mask's fill.
Opaque == 255

\* Alpha of the (0, 0, 0, 0) image the canvas is pasted on; the mask's ground.
Transparent == 0

Range(seq) == {seq[k] : k \in 1..Len(seq)}

VARIABLES
    fontExists,   \* filesystem: the candidate paths os.path.exists finds
    loadFails,    \* the sizes at which ImageFont.truetype raises for a font that exists
    fault,        \* the one other failure of the environment, if any
    dirExists,    \* filesystem: OUTPUT_DIR is a directory
    files,        \* filesystem: the content of icon<size>.png, per size
    pc,           \* where main is
    i,            \* main: index into SIZES of the loop
    font_path,    \* main: the path find_font returned
    icon,         \* main: the image generate_icon returned for SIZES[i]
    rendered,     \* the sizes generate_icon was invoked for in this run, in order
    saved,        \* the sizes whose save completed in this run, in order
    out,          \* what this run printed
    status,       \* the exit status of the process: <<>> until it ends
    run,          \* which run of the script this is
    startFiles,   \* files as they were when this run started
    prevStatus,   \* the exit status of the previous run (<<>> in the first)
    call,         \* a function called on its own: its name and arguments
    result        \* what that call returned (<<>> before it returns)

envVars == <<fontExists, loadFails, fault>>
mainVars == <<dirExists, files, pc, i, font_path, icon, rendered, saved, out,
              status, run, startFiles, prevStatus>>
fnVars == <<call, result>>
vars == <<envVars, mainVars, fnVars>>

(* ------------------------------------------------------------------ *)
(* find_font                                                          *)
(* ------------------------------------------------------------------ *)

\* The loop over font_paths from index k on: the first path that exists.
RECURSIVE FirstExisting(_, _)
FirstExisting(exists, k) ==
    IF k > NumFontPaths THEN NotFound
    ELSE IF k \in exists THEN k
    ELSE FirstExisting(exists, k + 1)

\* A locator that keeps the last match instead of returning at the first.
RECURSIVE LastExisting(_, _)
LastExisting(exists, k) ==
    IF k < 1 THEN NotFound
    ELSE IF k \in exists THEN k
    ELSE LastExisting(exists, k - 1)

find_font_last(exists) == LastExisting(exists, NumFontPaths)

find_font(exists) == FirstExisting(exists, 1)

(* ------------------------------------------------------------------ *)
(* generate_icon                                                      *)
(* ------------------------------------------------------------------ *)

\* A quotient rounded toward zero, as C's / is.
TruncDiv(a, b) == IF a >= 0 THEN a \div b ELSE -((-a) \div b)

\* Python's a // b for b > 0: the floor of the quotient.
FloorDiv(a, b) == a \div b

\* int(size * 0.65).  The double nearest 0.65 lies above 13/20 by less than
\* 2^-54, so for the sizes of the model the product is at or just above
\* 65*size/100 and never reaches the next integer: int() truncates it to
\* the floor of 65*size/100.
FontSize_rounded(size) == FloorDiv(65 * size + 50, 100)

FontSize(size) == FloorDiv(65 * size, 100)

\* ImageFont.truetype(font_path, font_size) raises: the file is missing, or
\* the font cannot be loaded at that size.
LoadRaises(size, path) == path \notin fontExists \/ size \in loadFails

\* The font the try/except leaves in `font`.
LoadFont(size, path) == IF LoadRaises(size, path) THEN DefaultFont ELSE path

Rounded_above(size) == size > RoundedFrom

Rounded(size) == size >= RoundedFrom

Image(size, path) ==
    [kind |-> "image", size |-> size, font |-> LoadFont(size, path),
     font_size |-> FontSize(size), rounded |-> Rounded(size)]

\* x, y of the draw call, from bbox = (left, top, right, bottom).
Center(size, bbox) ==
    LET text_width == bbox[3] - bbox[1]
        text_height == bbox[4] - bbox[2]
    IN  <<FloorDiv(size - text_width, 2) - bbox[1],
          FloorDiv(size - text_height, 2) - bbox[2]>>

\* mask_draw.rounded_rectangle([(0, 0), (size - 1, size - 1)], radius, fill=255)
\* at pixel (px, py): the rectangle's pixels, less those of the four corner
\* squares of side radius that lie further than radius from the centre of
\* the corner's circle.  The nearest point of the inner rectangle
\* (radius..size-1-radius on both axes) is (cx, cy).
RoundedRectangle(size, radius, px, py) ==
    LET lo == radius
        hi == size - 1 - radius
        cx == IF px < lo THEN lo ELSE IF px > hi THEN hi ELSE px
        cy == IF py < lo THEN lo ELSE IF py > hi THEN hi ELSE py
    IN  IF px = cx \/ py = cy
           \/ (px - cx) * (px - cx) + (py - cy) * (py - cy) <= radius * radius
        THEN Opaque ELSE Transparent

\* output.paste(img, mask=mask) at one pixel, on the alpha band.
Paste(dst, src, mask) == FloorDiv(src * mask + dst * (Opaque - mask), Opaque)

\* The alpha of generate_icon's image at pixel (px, py).  The canvas is
\* opaque everywhere: it is filled with alpha 255 and the text is drawn in
\* an opaque colour.
Alpha(size, px, py) ==
    IF Rounded(size)
    THEN Paste(Transparent, Opaque,
               RoundedRectangle(size, FloorDiv(size, 6), px, py))
    ELSE Opaque

NoImage == [kind |-> "none", size |-> 0, font |-> DefaultFont,
            font_size |-> 0, rounded |-> FALSE]
Absent == [NoImage EXCEPT !.kind = "absent"]
\* A file left by something else than this model's runs.
Old(size) == [NoImage EXCEPT !.kind = "old", !.size = size]
\* What a save that failed while writing leaves behind.
Partial(size) == [NoImage EXCEPT !.kind = "partial", !.size = size]

(* ------------------------------------------------------------------ *)
(* The environment                                                    *)
(* ------------------------------------------------------------------ *)

NoFault == [at |-> "none", size |-> 0, partial |-> FALSE]

Faults ==
    {NoFault}
    \cup {[at |-> "makedirs", size |-> 0, partial |-> FALSE]}
    \cup {[at |-> "render", size |-> s, partial |-> FALSE] : s \in Range(SIZES)}
    \cup {[at |-> "save", size |-> s, partial |-> p] :
             s \in Range(SIZES), p \in BOOLEAN}

FontStates == {S \in SUBSET font_paths : Cardinality(S) <= MaxFonts}

\* OUTPUT_DIR before the first run: missing, or there with any of the icons.
InitialFiles == [Range(SIZES) -> {Absent}] \cup
                {[s \in Range(SIZES) |-> IF s \in S THEN Old(s) ELSE Absent] :
                    S \in SUBSET Range(SIZES)}

NoCall == [fn |-> "none"]

(* ------------------------------------------------------------------ *)
(* main                                                               *)
(* ------------------------------------------------------------------ *)

Init ==
    /\ fontExists \in FontStates
    /\ loadFails \in SUBSET Range(SIZES)
    /\ fault \in Faults
    /\ dirExists \in BOOLEAN
    /\ files \in InitialFiles
    /\ ~dirExists => files = [s \in Range(SIZES) |-> Absent]
    /\ pc = "makedirs"
    /\ i = 1
    /\ font_path = NotFound
    /\ icon = NoImage
    /\ rendered = <<>>
    /\ saved = <<>>
    /\ out = <<>>
    /\ status = <<>>
    /\ run = 1
    /\ startFiles = files
    /\ prevStatus = <<>>
    /\ call = NoCall
    /\ result = <<>>

\* An exception nothing catches: the interpreter prints the traceback and
\* the process ends with status 1.
Raise ==
    /\ pc' = "raised"
    /\ status' = <<1>>

\* os.makedirs(OUTPUT_DIR, exist_ok=True), with a directory already there wiped.
MakeDirs_recreate ==
    /\ pc = "makedirs"
    /\ IF dirExists
       THEN /\ files' = [s \in Range(SIZES) |-> Absent]
            /\ pc' = "find_font"
            /\ UNCHANGED <<dirExists, status>>
       ELSE IF fault.at = "makedirs"
       THEN Raise /\ UNCHANGED <<dirExists, files>>
       ELSE /\ dirExists' = TRUE
            /\ pc' = "find_font"
            /\ UNCHANGED <<files, status>>
    /\ UNCHANGED <<envVars, fnVars, i, font_path, icon, rendered, saved, out,
                   run, startFiles, prevStatus>>

\* os.makedirs(OUTPUT_DIR, exist_ok=True)
MakeDirs ==
    /\ pc = "makedirs"
    /\ IF dirExists
       THEN /\ pc' = "find_font"
            /\ UNCHANGED <<dirExists, status>>
       ELSE IF fault.at = "makedirs"
       THEN Raise /\ UNCHANGED dirExists
       ELSE /\ dirExists' = TRUE
            /\ pc' = "find_font"
            /\ UNCHANGED status
    /\ UNCHANGED <<envVars, fnVars, files, i, font_path, icon, rendered, saved,
                   out, run, startFiles, prevStatus>>

\* The try/except around find_font, with the `return 1` of the handler lost.
FindFont_noReturn ==
    /\ pc = "find_font"
    /\ font_path' = find_font(fontExists)
    /\ out' = IF font_path' = NotFound
              THEN out \o <<"Error", "Please install">>
              ELSE Append(out, "Using font")
    /\ pc' = "generate"
    /\ UNCHANGED <<envVars, fnVars, dirExists, files, i, icon, rendered, saved,
                   status, run, startFiles, prevStatus>>

\* The try/except around find_font.
FindFont ==
    /\ pc = "find_font"
    /\ LET p == find_font(fontExists) IN
       IF p = NotFound
       THEN /\ out' = out \o <<"Error", "Please install">>
            /\ pc' = "returned"
            /\ status' = <<1>>
            /\ UNCHANGED font_path
       ELSE /\ font_path' = p
            /\ out' = Append(out, "Using font")
            /\ pc' = "generate"
            /\ UNCHANGED status
    /\ UNCHANGED <<envVars, fnVars, dirExists, files, i, icon, rendered, saved,
                   run, startFiles, prevStatus>>

\* icon = generate_icon(size, KANJI, font_path), without the try/except
\* around ImageFont.truetype.
GenerateIcon_noFallback ==
    /\ pc = "generate"
    /\ rendered' = Append(rendered, SIZES[i])
    /\ IF (fault.at = "render" /\ fault.size = SIZES[i])
          \/ LoadRaises(SIZES[i], font_path)
       THEN Raise /\ UNCHANGED <<icon, out>>
       ELSE /\ icon' = Image(SIZES[i], font_path)
            /\ pc' = "save"
            /\ UNCHANGED <<out, status>>
    /\ UNCHANGED <<envVars, fnVars, dirExists, files, i, font_path, saved, run,
                   startFiles, prevStatus>>

\* icon = generate_icon(size, KANJI, font_path)
GenerateIcon ==
    /\ pc = "generate"
    /\ rendered' = Append(rendered, SIZES[i])
    /\ IF fault.at = "render" /\ fault.size = SIZES[i]
       THEN Raise /\ UNCHANGED <<icon, out>>
       ELSE /\ icon' = Image(SIZES[i], font_path)
            /\ out' = IF LoadRaises(SIZES[i], font_path)
                      THEN Append(out, "Warning") ELSE out
            /\ pc' = "save"
            /\ UNCHANGED status
    /\ UNCHANGED <<envVars, fnVars, dirExists, files, i, font_path, saved, run,
                   startFiles, prevStatus>>

\* The end of the loop body: the next size, or the statements after the loop.
NextSize ==
    /\ i' = i + 1
    /\ pc' = IF i < Len(SIZES) THEN "generate" ELSE "done"

\* icon.save(output_path, "PNG") and the print after it, with `return 0`
\* inside the loop body.
Save_returnInLoop ==
    /\ pc = "save"
    /\ IF ~dirExists \/ (fault.at = "save" /\ fault.size = SIZES[i])
       THEN /\ Raise
            /\ files' = IF dirExists /\ fault.partial
                        THEN [files EXCEPT ![SIZES[i]] = Partial(SIZES[i])]
                        ELSE files
            /\ UNCHANGED <<i, saved, out>>
       ELSE /\ files' = [files EXCEPT ![SIZES[i]] = icon]
            /\ saved' = Append(saved, SIZES[i])
            /\ out' = Append(out, "Generated")
            /\ i' = i + 1
            /\ pc' = "done"
            /\ UNCHANGED status
    /\ UNCHANGED <<envVars, fnVars, dirExists, font_path, icon, rendered, run,
                   startFiles, prevStatus>>

\* icon.save(output_path, "PNG") and the print after it, opening the file
\* for exclusive creation.
Save_noOverwrite ==
    /\ pc = "save"
    /\ IF ~dirExists \/ (fault.at = "save" /\ fault.size = SIZES[i])
          \/ files[SIZES[i]] # Absent
       THEN /\ Raise
            /\ files' = IF dirExists /\ fault.at = "save" /\ fault.partial
                           /\ files[SIZES[i]] = Absent
                        THEN [files EXCEPT ![SIZES[i]] = Partial(SIZES[i])]
                        ELSE files
            /\ UNCHANGED <<i, saved, out>>
       ELSE /\ files' = [files EXCEPT ![SIZES[i]] = icon]
            /\ saved' = Append(saved, SIZES[i])
            /\ out' = Append(out, "Generated")
            /\ NextSize
            /\ UNCHANGED status
    /\ UNCHANGED <<envVars, fnVars, dirExists, font_path, icon, rendered, run,
                   startFiles, prevStatus>>

\* icon.save(output_path, "PNG") and the print after it, inside a
\* try/except that goes on to the next size.
Save_swallow ==
    /\ pc = "save"
    /\ IF ~dirExists \/ (fault.at = "save" /\ fault.size = SIZES[i])
       THEN /\ files' = IF dirExists /\ fault.partial
                        THEN [files EXCEPT ![SIZES[i]] = Partial(SIZES[i])]
                        ELSE files
            /\ NextSize
            /\ UNCHANGED <<saved, out, status>>
       ELSE /\ files' = [files EXCEPT ![SIZES[i]] = icon]
            /\ saved' = Append(saved, SIZES[i])
            /\ out' = Append(out, "Generated")
            /\ NextSize
            /\ UNCHANGED status
    /\ UNCHANGED <<envVars, fnVars, dirExists, font_path, icon, rendered, run,
                   startFiles, prevStatus>>

\* icon.save(output_path, "PNG") and the print after it.  A save that fails
\* raises; it leaves the file as it was (the open failed) or holding part of
\* the data (the write failed).
Save ==
    /\ pc = "save"
    /\ IF ~dirExists \/ (fault.at = "save" /\ fault.size = SIZES[i])
       THEN /\ Raise
            /\ files' = IF dirExists /\ fault.partial
                        THEN [files EXCEPT ![SIZES[i]] = Partial(SIZES[i])]
                        ELSE files
            /\ UNCHANGED <<i, saved, out>>
       ELSE /\ files' = [files EXCEPT ![SIZES[i]] = icon]
            /\ saved' = Append(saved, SIZES[i])
            /\ out' = Append(out, "Generated")
            /\ NextSize
            /\ UNCHANGED status
    /\ UNCHANGED <<envVars, fnVars, dirExists, font_path, icon, rendered, run,
                   startFiles, prevStatus>>

\* print("\nDone! ..."); return 0, and exit(main()) with it.
Return0 ==
    /\ pc = "done"
    /\ out' = Append(out, "Done")
    /\ pc' = "returned"
    /\ status' = <<0>>
    /\ UNCHANGED <<envVars, fnVars, dirExists, files, i, font_path, icon,
                   rendered, saved, run, startFiles, prevStatus>>

Terminated == pc \in {"returned", "raised"}

\* The script is run again: a new process over the same filesystem.
Rerun ==
    /\ Terminated
    /\ run < MaxRuns
    /\ run' = run + 1
    /\ startFiles' = files
    /\ prevStatus' = status
    /\ pc' = "makedirs"
    /\ i' = 1
    /\ font_path' = NotFound
    /\ icon' = NoImage
    /\ rendered' = <<>>
    /\ saved' = <<>>
    /\ out' = <<>>
    /\ status' = <<>>
    /\ UNCHANGED <<envVars, fnVars, dirExists, files>>

Next ==
    \/ MakeDirs
    \/ FindFont
    \/ GenerateIcon
    \/ Save
    \/ Return0
    \/ Rerun

Spec == Init /\ [][Next]_vars

(* ------------------------------------------------------------------ *)
(* find_font and the steps of generate_icon, called on their own      *)
(* ------------------------------------------------------------------ *)

\* main does not run.
MainIdle ==
    /\ fontExists = {}
    /\ loadFails = {}
    /\ fault = NoFault
    /\ dirExists = FALSE
    /\ files = [s \in Range(SIZES) |-> Absent]
    /\ pc = "idle"
    /\ i = 1
    /\ font_path = NotFound
    /\ icon = NoImage
    /\ rendered = <<>>
    /\ saved = <<>>
    /\ out = <<>>
    /\ status = <<>>
    /\ run = 1
    /\ startFiles = files
    /\ prevStatus = <<>>

FindFontCalls == {[fn |-> "find_font", exists |-> S] : S \in SUBSET font_paths}

FontSizeCalls == {[fn |-> "font_size", size |-> s] : s \in 1..MaxSize}

CenterSizes == (1..MaxCanvas) \cup Range(SIZES)

CenterCalls ==
    {[fn |-> "center", size |-> s, bbox |-> <<l, t, l + w, t + h>>] :
        s \in CenterSizes, l \in -MaxBearing..MaxBearing,
        t \in -MaxBearing..MaxBearing, w \in 0..MaxExtent, h \in 0..MaxExtent}

MaskSizes == ((RoundedFrom - MaskWindow)..(RoundedFrom + MaskWindow))
             \cup Range(SIZES)

\* Every pixel of every image of a size in MaskSizes.
AlphaCalls ==
    {c \in {[fn |-> "alpha", size |-> s, px |-> x, py |-> y] :
               s \in MaskSizes, x \in 0..SIZES[Len(SIZES)],
               y \in 0..SIZES[Len(SIZES)]} :
        c.px < c.size /\ c.py < c.size}

InitCalls ==
    /\ MainIdle
    /\ \/ call \in FindFontCalls
       \/ call \in FontSizeCalls
       \/ call \in CenterCalls
       \/ call \in AlphaCalls
    /\ result = <<>>

CallFindFont ==
    /\ call.fn = "find_font"
    /\ result = <<>>
    /\ result' = <<find_font(call.exists)>>
    /\ UNCHANGED <<envVars, mainVars, call>>

CallFontSize ==
    /\ call.fn = "font_size"
    /\ result = <<>>
    /\ result' = <<FontSize(call.size)>>
    /\ UNCHANGED <<envVars, mainVars, call>>

CallCenter ==
    /\ call.fn = "center"
    /\ result = <<>>
    /\ result' = Center(call.size, call.bbox)
    /\ UNCHANGED <<envVars, mainVars, call>>

CallAlpha ==
    /\ call.fn = "alpha"
    /\ result = <<>>
    /\ result' = <<Alpha(call.size, call.px, call.py)>>
    /\ UNCHANGED <<envVars, mainVars, call>>

NextCalls ==
    \/ CallFindFont
    \/ CallFontSize
    \/ CallCenter
    \/ CallAlpha

SpecCalls == InitCalls /\ [][NextCalls]_vars

(* ------------------------------------------------------------------ *)
(* Properties                                                         *)
(* ------------------------------------------------------------------ *)

Returned(fn) == call.fn = fn /\ result # <<>>

IsPrefix(s, t) == Len(s) <= Len(t) /\ \A k \in 1..Len(s) : s[k] = t[k]

\* C1: find_font returns the existing candidate of the smallest index, and
\* fails with the not-found error exactly when no candidate exists.
C1_FirstExisting ==
    Returned("find_font") =>
        IF call.exists = {}
        THEN result[1] = NotFound
        ELSE /\ result[1] \in call.exists
             /\ \A k \in call.exists : result[1] <= k

\* find_font passed over higher-priority paths that do not exist and over
\* none that does.
C1_Witness ==
    /\ Returned("find_font")
    /\ call.exists = {5, 9}
    /\ result[1] = 5

\* C2: with no candidate font on disk, main ends with status 1, invokes
\* neither generate_icon nor save, and leaves every icon file as it was.
C2_NoFontNoFiles ==
    fontExists = {} =>
        /\ rendered = <<>>
        /\ saved = <<>>
        /\ icon = NoImage
        /\ files = startFiles
        /\ pc \in {"makedirs", "find_font", "returned", "raised"}
        /\ Terminated => status = <<1>>
        /\ pc = "raised" => fault.at = "makedirs" /\ ~dirExists

\* A run without a font has returned 1 over icons that were there before.
C2_Witness ==
    /\ fontExists = {}
    /\ pc = "returned"
    /\ status = <<1>>
    /\ \A s \in Range(SIZES) : files[s] = Old(s)

\* C3: main returns nonzero only if no font exists; with a font, a run that
\* returns has rendered and saved each size of SIZES once, in icon<size>.png,
\* over whatever was there, and returns 0.
C3_ReturnStatus ==
    pc = "returned" =>
        /\ status # <<0>> => fontExists = {}
        /\ fontExists # {} =>
              /\ status = <<0>>
              /\ rendered = SIZES
              /\ saved = SIZES
              /\ \A s \in Range(SIZES) :
                    files[s].kind = "image" /\ files[s].size = s

\* A run has returned 0 having overwritten an icon that was there before.
C3_Witness ==
    /\ pc = "returned"
    /\ status = <<0>>
    /\ run = 1
    /\ startFiles[48] = Old(48)
    /\ files[48].kind = "image"

\* What a run ends with, from the font state and the fault alone: the
\* sizes saved and the exit status.
SizesBefore(s) == {t \in Range(SIZES) : t < s}

ExpectedSaved ==
    IF ~dirExists \/ fontExists = {} THEN {}
    ELSE IF fault.at \in {"render", "save"} THEN SizesBefore(fault.size)
    ELSE Range(SIZES)

ExpectedStatus ==
    IF ~dirExists \/ fontExists = {} \/ fault.at \in {"render", "save"}
    THEN <<1>> ELSE <<0>>

\* C4: a font that fails to load at a size is replaced by the default font
\* for that size only; the run still saves all three icons and returns 0,
\* and its exit status and the files it writes do not depend on the sizes
\* at which loading fails.
C4_LoadFailureNonFatal ==
    /\ icon.kind = "image" =>
          icon.font = IF icon.size \in loadFails THEN DefaultFont ELSE font_path
    /\ \A s \in Range(saved) :
          files[s].font = IF s \in loadFails THEN DefaultFont ELSE font_path
    /\ Terminated /\ fontExists # {} /\ fault = NoFault =>
          pc = "returned" /\ status = <<0>> /\ saved = SIZES
    /\ Terminated => status = ExpectedStatus /\ Range(saved) = ExpectedSaved

\* A run whose font failed to load at 48 only has returned 0 with the 48
\* icon in the default font and the others in the located font.
C4_Witness ==
    /\ pc = "returned"
    /\ status = <<0>>
    /\ loadFails = {48}
    /\ files[48].font = DefaultFont
    /\ files[16].font = font_path
    /\ files[128].font = font_path
    /\ font_path # DefaultFont

\* C8: a second run over the same font state, load outcomes and fault
\* leaves every icon file as the first run left it, at every point of the
\* run, and ends with the same exit status.
C8_Idempotent ==
    run >= 2 =>
        /\ files = startFiles
        /\ Terminated => status = prevStatus

\* A second run has saved all three icons over those of the first.
C8_Witness ==
    /\ run = 2
    /\ pc = "returned"
    /\ status = <<0>>
    /\ saved = SIZES

\* C9: icons are rendered and saved in the order of SIZES, each saved
\* before the next is rendered; a failure while rendering or saving ends
\* the run with a nonzero status, the icons saved before it in place and no
\* later icon written.
C9_PrefixOrder ==
    /\ IsPrefix(saved, SIZES)
    /\ IsPrefix(rendered, SIZES)
    /\ Len(saved) <= Len(rendered)
    /\ Len(rendered) <= Len(saved) + 1
    /\ pc = "generate" => Len(rendered) = Len(saved)
    /\ \A s \in Range(saved) : files[s] = Image(s, font_path)
    /\ \A s \in Range(SIZES) \ Range(saved) :
          \/ files[s] = startFiles[s]
          \/ /\ pc = "raised"
             /\ fault = [at |-> "save", size |-> s, partial |-> TRUE]
             /\ files[s] = Partial(s)
             /\ Range(saved) = SizesBefore(s)
    /\ pc = "raised" => status = <<1>> /\ saved # SIZES
    /\ status = <<0>> => fault.at \notin {"render", "save"}

\* A save has failed at 48 while writing: 16 is saved, 128 is not.
C9_Witness ==
    /\ pc = "raised"
    /\ saved = <<16>>
    /\ rendered = <<16, 48>>
    /\ files[48] = Partial(48)
    /\ files[128] = startFiles[128]

\* C10: once main is at or past the font lookup the output directory
\* exists, also when the run ends with status 1 for want of a font; the
\* directory-creation step and the no-font path leave the files alone.
C10_DirEnsured ==
    /\ pc \in {"find_font", "generate", "save", "done", "returned"} => dirExists
    /\ pc = "raised" /\ ~dirExists => fault.at = "makedirs" /\ rendered = <<>>
    /\ pc = "find_font" => files = startFiles
    /\ pc = "returned" /\ status = <<1>> => files = startFiles

\* The directory step has run over a directory that held an icon.
C10_Witness ==
    /\ pc = "find_font"
    /\ files[16] = Old(16)
    /\ files[48] = Absent
    /\ dirExists

\* Whether pixel (px, py) of a size x size image lies outside the rounded
\* rectangle of radius r over (0, 0)..(size-1, size-1): in the square of a
\* corner and further than r from the centre of that corner's circle.
OutsideRounded(size, r, px, py) ==
    \E cx \in {r, size - 1 - r}, cy \in {r, size - 1 - r} :
        /\ IF cx = r THEN px < cx ELSE px > cx
        /\ IF cy = r THEN py < cy ELSE py > cy
        /\ (px - cx) * (px - cx) + (py - cy) * (py - cy) > r * r

\* C5: the mask is applied exactly when size >= 48.  Below 48 every pixel
\* has alpha 255; from 48 on every pixel outside the rounded rectangle of
\* radius size // 6 has alpha 0 and every other pixel has alpha 255.
C5_MaskAlpha ==
    Returned("alpha") =>
        IF call.size < 48
        THEN result[1] = 255
        ELSE result[1] =
                IF OutsideRounded(call.size, call.size \div 6, call.px, call.py)
                THEN 0 ELSE 255

\* The corner pixel of the 48 icon is transparent.
C5_Witness ==
    /\ Returned("alpha")
    /\ call.size = 48
    /\ call.px = 0
    /\ call.py = 47
    /\ result[1] = 0

Abs(n) == IF n < 0 THEN -n ELSE n

\* C6 as stated: the point size is the nearest integer to 65*size/100.
C6_RoundedToNearest ==
    Returned("font_size") =>
        2 * Abs(100 * result[1] - 65 * call.size) <= 100

\* C6: the point size is 65*size/100 truncated to an integer; for the
\* sizes of SIZES that is also the nearest integer.
C6_Truncated ==
    Returned("font_size") =>
        /\ 100 * result[1] <= 65 * call.size
        /\ 65 * call.size < 100 * (result[1] + 1)
        /\ call.size \in Range(SIZES) =>
              2 * Abs(100 * result[1] - 65 * call.size) <= 100

\* Size 3 is loaded at 1 point, where 1.95 rounds to 2.
C6_Witness ==
    /\ Returned("font_size")
    /\ call.size = 3
    /\ result[1] = 1

\* C7: the draw offset is the floor-division formula; it puts the box with
\* a leading margin of floor((size - extent) / 2) and a trailing margin of
\* the rest on each axis, the trailing margin larger by at most 1, also
\* when the box is larger than the canvas.
C7_Centered ==
    Returned("center") =>
        \A axis \in {1, 2} :
            LET lo == call.bbox[axis]
                hi == call.bbox[axis + 2]
                extent == hi - lo
                before == result[axis] + lo
                after == call.size - (result[axis] + hi)
            IN  /\ result[axis] = ((call.size - extent) \div 2) - lo
                /\ 2 * before <= call.size - extent
                /\ call.size - extent < 2 * before + 2
                /\ after = call.size - extent - before
                /\ after - before \in {0, 1}

\* A box wider than the canvas by an odd number of pixels has been centred.
C7_Witness ==
    /\ Returned("center")
    /\ call.size = 2
    /\ call.bbox = <<-1, 1, 4, 1>>
    /\ result = <<-1, 0>>

====
